---- MODULE Spec2Model ----
(***************************************************************************)
(* check_estimation.c: the line/token comparator of main() and the         *)
(* function should_accept().                                               *)
(*                                                                         *)
(* Characters are one-character strings; NUL, SP and NL stand for '\0',    *)
(* ' ' and '\n'.  A line buffer (char[MAXLINELEN]) is a function from      *)
(* 0..MAXLINELEN-1 to characters; a cell that was never written holds      *)
(* UNINIT.  Reading an UNINIT cell yields an indeterminate character: the  *)
(* step that reads it picks one of GarbageChar and the cell keeps it.      *)
(* Reading past the last cell of a buffer leaves the model (pc "overrun"). *)
(*                                                                         *)
(* The source uses identifiers it never declares (f1, f2, abs_prec,        *)
(* rel_prec, ignore_ws, equal).  f1 and f2 are modelled as variables that  *)
(* start uninitialised, abs_prec, rel_prec and ignore_ws as parameters     *)
(* fixed at start, equal as the tolerance comparison whose body stands at  *)
(* lines 105-120.                                                          *)
(***************************************************************************)
EXTENDS Integers, Sequences, FiniteSets

\* ---------------------------------------------------------------- bounds
\* Lines one stream can hold.
MaxLines == 2
\* Largest case count handed to should_accept.
MaxCases == 3
\* Calls of should_accept in one behaviour of SpecAccept.
MaxCalls == 2

\* ------------------------------------------------------------ characters
NUL == "NUL"
SP == " "
NL == "nl"
UNINIT == "?"

\* #define MAXLINELEN 1024, scaled down: the buffers of the model hold a line
\* of three characters and its NUL.
MAXLINELEN == 4

Cells == 0..(MAXLINELEN - 1)

\* What an indeterminate cell can read as: a terminator, a blank, a letter,
\* a digit.
GarbageChar == {NUL, SP, "a", "2"}

isspace(c) == c \in {SP, NL}

isdigit(c) == c \in {"0", "1", "2", "3", "4", "5", "6", "7", "8", "9"}

DigitValue(c) ==
  CASE c = "0" -> 0 [] c = "1" -> 1 [] c = "2" -> 2 [] c = "3" -> 3
    [] c = "4" -> 4 [] c = "5" -> 5 [] c = "6" -> 6 [] c = "7" -> 7
    [] c = "8" -> 8 [] OTHER -> 9

\* The lines fgets can return: a line ends with its newline, unless it is
\* the last line of its file.  "1 3" is a reference interval, "2" a value.
Lines ==
  { <<NL>>, <<SP, NL>>, <<"2", NL>>, <<"a", NL>>, <<"1", SP, "3">> }

Last(s) == s[Len(s)]

\* ---------------------------------------------------------------- floats
\* flt values: a finite number, NaN, +/- infinity, or not yet assigned.
Fin(v) == [cls |-> "fin", v |-> v]
NaN == [cls |-> "nan", v |-> 0]
PosInf == [cls |-> "inf", v |-> 1]
NegInf == [cls |-> "inf", v |-> -1]
Undef == [cls |-> "undef", v |-> 0]

Abs(x) == IF x < 0 THEN -x ELSE x

VARIABLES
  pc,          \* position in main: "read", "token", "finish", "done", "overrun"
  in1, in2,    \* lines fgets has returned from file1 / file2 so far
  linenr, tokennr, diff, wsdiff,
  line1, line2,
  pos1, pos2, n1, n2,
  str1, str2,
  f1, f2,
  abs_prec, rel_prec, ignore_ws,
  alpha, probability,   \* in hundredths
  out,         \* what printf has written: records [kind, line, token]
  successes, cases, result, calls   \* the last call of should_accept

vars == <<pc, in1, in2, linenr, tokennr, diff, wsdiff, line1, line2,
          pos1, pos2, n1, n2, str1, str2, f1, f2, abs_prec, rel_prec,
          ignore_ws, alpha, probability, out, successes, cases, result, calls>>

inputVars == <<abs_prec, rel_prec, ignore_ws>>
optVars == <<alpha, probability>>
acceptVars == <<successes, cases, result, calls>>
lineVars == <<line1, line2, pos1, pos2, n1, n2, str1, str2, tokennr>>

\* const flt default_alpha = 0.05;
default_alpha == 5
\* const flt default_probability = 0.95;
default_probability == 95

\* ------------------------------------------------------- should_accept
\* reldiff > rel_prec, with reldiff = fabsl((f1-f2)/f2): x/0 is infinite for
\* x # 0 and 0/0 is NaN, which compares false.
RelDiffExceeds(a, b, rp) ==
  IF b = 0 THEN a # 0 ELSE Abs(a - b) > rp * Abs(b)

\* The body at lines 105-120 on values a, b with tolerances ap, rp.
ToleranceEqual(a, b, ap, rp) ==
  IF a.cls = "fin" /\ b.cls = "fin"
  THEN ~(Abs(a.v - b.v) > ap /\ RelDiffExceeds(a.v, b.v, rp))
  ELSE IF a.cls = "nan" /\ b.cls = "nan" THEN TRUE
  ELSE IF a.cls = "inf" /\ b.cls = "inf" THEN a.v = b.v
  ELSE FALSE

\* int should_accept(flt successes, flt cases): the body reads f1, f2,
\* abs_prec and rel_prec and neither of its parameters.
should_accept(s, c) == ToleranceEqual(f1, f2, abs_prec, rel_prec)

\* equal(f1,f2) as called at line 276.
equal(a, b) == ToleranceEqual(a, b, abs_prec, rel_prec)

\* The results a comparison can give: an uninitialised operand makes it
\* indeterminate.
Outcomes(a, b, r) == IF a.cls = "undef" \/ b.cls = "undef" THEN BOOLEAN ELSE {r}

\* ------------------------------------------------------------------ Init
\* main before the loop at line 205 (lines 201-203), the locals not yet
\* assigned, and no call of should_accept made.
LoopInit ==
  /\ pc = "read"
  /\ in1 = <<>> /\ in2 = <<>>
  /\ linenr = 0 /\ diff = 0 /\ wsdiff = 0
  /\ tokennr = 0
  /\ line1 = [i \in Cells |-> UNINIT]
  /\ line2 = [i \in Cells |-> UNINIT]
  /\ pos1 = 0 /\ pos2 = 0 /\ n1 = 0 /\ n2 = 0
  /\ str1 = <<>> /\ str2 = <<>>
  /\ out = <<>>
  /\ successes = 0 /\ cases = 0 /\ result = FALSE /\ calls = 0

\* The values the undeclared abs_prec, rel_prec and ignore_ws may have.
Tolerances ==
  /\ abs_prec \in {0, 1}
  /\ rel_prec = 0
  /\ ignore_ws \in BOOLEAN

Init ==
  /\ LoopInit
  /\ Tolerances
  /\ f1 = Undef /\ f2 = Undef
  /\ alpha = default_alpha
  /\ probability = default_probability

\* ------------------------------------------------------------ the scans
\* char *fgets(buf, MAXLINELEN, file) returning line l: the characters, then
\* NUL; the cells behind keep what they held.
fgets(buf, l) ==
  [i \in Cells |-> IF i < Len(l) THEN l[i + 1]
                   ELSE IF i = Len(l) THEN NUL ELSE buf[i]]

\* Index of the first cell at or after p that is not whitespace (MAXLINELEN
\* when the run reaches the end of the buffer).
RECURSIVE SpaceEnd(_, _)
SpaceEnd(g, p) ==
  IF p < MAXLINELEN /\ isspace(g[p]) THEN SpaceEnd(g, p + 1) ELSE p

\* Index of the first cell at or after p that ends a "%s" token.
RECURSIVE TokEnd(_, _)
TokEnd(g, p) ==
  IF p < MAXLINELEN /\ g[p] # NUL /\ ~isspace(g[p]) THEN TokEnd(g, p + 1) ELSE p

\* The characters of cells a..b-1.
Text(g, a, b) == [i \in 1..(b - a) |-> g[a + i - 1]]

\* int scanspace(const char *str, char *res) on &g[p]: the characters copied
\* and their number.
scanspace(g, p) ==
  LET e == SpaceEnd(g, p) IN [res |-> Text(g, p, e), n |-> e - p, end |-> e]

\* sscanf(str,"%Lf",&f): 1 and the value of the longest numeric prefix, 0
\* when the first non-blank character starts no number, -1 (EOF) when the
\* string holds nothing but blanks.
RECURSIVE LeadingSpaces(_, _)
LeadingSpaces(s, i) ==
  IF i <= Len(s) /\ isspace(s[i]) THEN LeadingSpaces(s, i + 1) ELSE i

RECURSIVE DigitsValue(_, _, _)
DigitsValue(s, i, acc) ==
  IF i <= Len(s) /\ isdigit(s[i])
  THEN DigitsValue(s, i + 1, 10 * acc + DigitValue(s[i]))
  ELSE acc

ScanFloat(s) ==
  LET i == LeadingSpaces(s, 1) IN
  IF i > Len(s) THEN [read |-> -1, v |-> 0]
  ELSE IF isdigit(s[i]) THEN [read |-> 1, v |-> DigitsValue(s, i, 0)]
  ELSE [read |-> 0, v |-> 0]

\* The contents a step can see in buffer buf from cell p on: every cell still
\* UNINIT reads as some character.
Views(buf, p) ==
  LET U == {i \in Cells : i >= p /\ buf[i] = UNINIT} IN
  { [i \in Cells |-> IF i \in U THEN c[i] ELSE buf[i]] : c \in [U -> GarbageChar] }

\* strlen of the line a buffer holds.
RECURSIVE FirstNul(_, _)
FirstNul(buf, i) ==
  IF i < MAXLINELEN /\ buf[i] # NUL THEN FirstNul(buf, i + 1) ELSE i

strlen(buf) == FirstNul(buf, 0)

\* ----------------------------------------------------------- the output
Rec(kind, l, t) == [kind |-> kind, line |-> l, token |-> t]

\* The printf lines that go with diff++.
DiffKinds ==
  {"file1ended", "file2ended", "misses", "excess", "parse1", "parse2",
   "nonfloat", "floatdiffers"}

\* ------------------------------------------------------- the outer loop
\* file has a further line: the model bounds the lines of a file, and a line
\* without newline is the last one.
CanRead(in) ==
  IF in = <<>> THEN MaxLines > 0
  ELSE Len(in) < MaxLines /\ Last(Last(in)) = NL

\* Lines 206-210: both fgets return NULL.
BothEnded ==
  /\ pc = "read"
  /\ linenr' = linenr + 1
  /\ pc' = "finish"
  /\ UNCHANGED <<in1, in2, diff, wsdiff, lineVars, f1, f2, inputVars, optVars,
                 out, acceptVars>>

\* File1Ended with continue in place of the break at line 215.
File1Ended_continue ==
  /\ pc = "read"
  /\ CanRead(in2)
  /\ \E l2 \in Lines :
       /\ in2' = Append(in2, l2)
       /\ line2' = fgets(line2, l2)
  /\ linenr' = linenr + 1
  /\ out' = Append(out, Rec("file1ended", linenr + 1, 0))
  /\ diff' = diff + 1
  /\ pc' = "read"
  /\ UNCHANGED <<in1, wsdiff, line1, pos1, pos2, n1, n2, str1, str2, tokennr,
                 f1, f2, inputVars, optVars, acceptVars>>

\* Lines 206-216: file1 is at its end, file2 gives a line.
File1Ended ==
  /\ pc = "read"
  /\ CanRead(in2)
  /\ \E l2 \in Lines :
       /\ in2' = Append(in2, l2)
       /\ line2' = fgets(line2, l2)
  /\ linenr' = linenr + 1
  /\ out' = Append(out, Rec("file1ended", linenr + 1, 0))
  /\ diff' = diff + 1
  /\ pc' = "finish"
  /\ UNCHANGED <<in1, wsdiff, line1, pos1, pos2, n1, n2, str1, str2, tokennr,
                 f1, f2, inputVars, optVars, acceptVars>>

\* Lines 206-221: file2 is at its end, file1 gives a line.
File2Ended ==
  /\ pc = "read"
  /\ CanRead(in1)
  /\ \E l1 \in Lines :
       /\ in1' = Append(in1, l1)
       /\ line1' = fgets(line1, l1)
  /\ linenr' = linenr + 1
  /\ out' = Append(out, Rec("file2ended", linenr + 1, 0))
  /\ diff' = diff + 1
  /\ pc' = "finish"
  /\ UNCHANGED <<in2, wsdiff, line2, pos1, pos2, n1, n2, str1, str2, tokennr,
                 f1, f2, inputVars, optVars, acceptVars>>

\* Lines 206-229: both files give a line; the leading whitespace is scanned.
LinesRead ==
  /\ pc = "read"
  /\ CanRead(in1) /\ CanRead(in2)
  /\ \E l1 \in Lines, l2 \in Lines :
       LET b1 == fgets(line1, l1)
           b2 == fgets(line2, l2)
           s1 == scanspace(b1, 0)
           s2 == scanspace(b2, 0)
       IN /\ in1' = Append(in1, l1)
          /\ in2' = Append(in2, l2)
          /\ line1' = b1
          /\ line2' = b2
          /\ n1' = s1.n /\ str1' = s1.res
          /\ n2' = s2.n /\ str2' = s2.res
          /\ pos1' = s1.n
          /\ pos2' = s2.n
  /\ linenr' = linenr + 1
  /\ tokennr' = 0
  /\ pc' = "token"
  /\ UNCHANGED <<diff, wsdiff, f1, f2, inputVars, optVars, out, acceptVars>>

\* The test of line 311 off by one.
FoundDifferences_offByOne(d) == d > 1

\* if ( diff > 0 ) at line 311.
FoundDifferences(d) == d > 0

\* Lines 308-313: the summary line; its token field holds the count.
Finish ==
  /\ pc = "finish"
  /\ out' = IF FoundDifferences(diff)
            THEN Append(out, [kind |-> "found", line |-> linenr - 1, token |-> diff])
            ELSE out
  /\ pc' = "done"
  /\ UNCHANGED <<in1, in2, linenr, diff, wsdiff, lineVars, f1, f2, inputVars,
                 optVars, acceptVars>>

\* ------------------------------------------------------- the token loop
\* The locals of one pass through the loop body (lines 231-304): brk says the
\* pass left the loop, over that it read past a buffer, rd1/rd2 are the cells
\* of line1/line2 it has read.
Locals ==
  [diff |-> diff, wsdiff |-> wsdiff, out |-> out, tokennr |-> tokennr,
   pos1 |-> pos1, pos2 |-> pos2, n1 |-> n1, n2 |-> n2,
   str1 |-> str1, str2 |-> str2, f1 |-> f1, f2 |-> f2,
   read1 |-> 0, read2 |-> 0, brk |-> FALSE, over |-> FALSE,
   rd1 |-> {}, rd2 |-> {}]

\* sscanf(&g[p],"%s",str) and sscanf(&g[p],"%*s%n",&n): blanks are skipped,
\* then the token is read; with no token left nothing is stored (EOF).
TokenFrom(g, p, w, e) ==
  [has |-> e > w, str |-> Text(g, w, e), n |-> e - p, end |-> e]

TokenAfter(g, p, w) == TokenFrom(g, p, w, TokEnd(g, w))

ScanToken(g, p) == TokenAfter(g, p, SpaceEnd(g, p))

\* Cells p..e of a buffer.
CellsRead(p, e) == {i \in Cells : p <= i /\ i <= e}

\* Lines 233-238 for tokens t1, t2 and the advances m1, m2 of the cursors.
Scanned(s, t1, t2, m1, m2) ==
  [s EXCEPT !.tokennr = @ + 1,
            !.read1 = IF t1.has THEN 1 ELSE -1,
            !.read2 = IF t2.has THEN 1 ELSE -1,
            !.str1 = IF t1.has THEN t1.str ELSE @,
            !.str2 = IF t2.has THEN t2.str ELSE @,
            !.n1 = m1, !.n2 = m2,
            !.pos1 = @ + m1, !.pos2 = @ + m2,
            !.over = t1.end >= MAXLINELEN \/ t2.end >= MAXLINELEN,
            !.rd1 = CellsRead(s.pos1, t1.end),
            !.rd2 = CellsRead(s.pos2, t2.end)]

\* A scan that reads no token leaves n as it was.
Advance(t, n) == IF t.has THEN t.n ELSE n

ScannedTokens(s, t1, t2) ==
  Scanned(s, t1, t2, Advance(t1, s.n1), Advance(t2, s.n2))

\* Lines 231-238.
ScanTokens(s, g1, g2) ==
  ScannedTokens(s, ScanToken(g1, s.pos1), ScanToken(g2, s.pos2))

\* printf of a difference and diff++.
Report(s, kind) ==
  [s EXCEPT !.diff = @ + 1, !.out = Append(@, Rec(kind, linenr, s.tokennr))]

\* Breaks without the break statements of the parse failures.
Breaks_tokenCountOnly(kind) == kind \in {"misses", "excess"}

\* The differences that end the token loop of the line (the break
\* statements at lines 243, 248, 261 and 267).
Breaks(kind) == kind \in {"misses", "excess", "parse1", "parse2"}

Left(s) == [s EXCEPT !.brk = TRUE]

\* Lines 240-249.
Presence(s) ==
  IF s.read1 # 1 /\ s.read2 = 1 THEN "misses"
  ELSE IF s.read1 = 1 /\ s.read2 # 1 THEN "excess"
  ELSE "both"

\* Lines 254-268: what the two sscanf results lead to.
ParseKind(r1, r2) ==
  IF r1 = 0 THEN "parse1" ELSE IF r2 = 0 THEN "parse2" ELSE "parsed"

\* Lines 270-274.
NonFloat(s) ==
  IF ~(s.read1 = 1 /\ s.read2 = 1) THEN Report(s, "nonfloat") ELSE s

\* Lines 276-287 with eq the value of equal(f1,f2).
FloatDiffers(s, eq) == IF ~eq THEN Report(s, "floatdiffers") ELSE s

\* equal(f1,f2) at line 276; e is its value when an operand was never
\* assigned.
EqualAt(s, e) ==
  IF s.f1.cls = "undef" \/ s.f2.cls = "undef" THEN e ELSE equal(s.f1, s.f2)

\* Lines 257-287 after the two sscanf calls.
Parsed(s, k, e) ==
  IF k = "parsed" THEN FloatDiffers(NonFloat(s), EqualAt(s, e))
  ELSE IF Breaks(k) THEN Left(Report(s, k))
  ELSE FloatDiffers(NonFloat(Report(s, k)), EqualAt(s, e))

\* Lines 254-255.
Assigned(s, p1, p2) ==
  [s EXCEPT !.read1 = p1.read, !.read2 = p2.read,
            !.f1 = IF p1.read = 1 THEN Fin(p1.v) ELSE @,
            !.f2 = IF p2.read = 1 THEN Fin(p2.v) ELSE @]

ParsedAs(s, p1, p2, e) == Parsed(Assigned(s, p1, p2), ParseKind(p1.read, p2.read), e)

\* Lines 252-287.
Compare(s, e) ==
  IF s.str1 = s.str2 THEN s
  ELSE ParsedAs(s, ScanFloat(s.str1), ScanFloat(s.str2), e)

\* Lines 291-304 for the whitespace w1, w2 found behind the tokens.
Spaced(s, g1, g2, w1, w2, ov, ws) ==
  [s EXCEPT !.n1 = w1.n, !.n2 = w2.n,
            !.str1 = w1.res, !.str2 = w2.res,
            !.wsdiff = IF ws THEN @ + 1 ELSE @,
            !.out = IF ws /\ ~ignore_ws
                    THEN Append(@, Rec("whitespace", linenr, s.tokennr))
                    ELSE @,
            !.pos1 = w1.end, !.pos2 = w2.end,
            !.over = ov,
            !.brk = ~ov /\ g1[w1.end] = NUL /\ g2[w2.end] = NUL,
            !.rd1 = @ \cup CellsRead(s.pos1, w1.end),
            !.rd2 = @ \cup CellsRead(s.pos2, w2.end)]

SpacedBy(s, g1, g2, w1, w2) ==
  Spaced(s, g1, g2, w1, w2,
         w1.end >= MAXLINELEN \/ w2.end >= MAXLINELEN, w1.res # w2.res)

\* Lines 289-304.
TokenDone(s, g1, g2) ==
  IF s.pos1 >= MAXLINELEN \/ s.pos2 >= MAXLINELEN THEN [s EXCEPT !.over = TRUE]
  ELSE SpacedBy(s, g1, g2, scanspace(g1, s.pos1), scanspace(g2, s.pos2))

\* Lines 252-304.
CompareAndSpace(c, g1, g2) == IF c.brk THEN c ELSE TokenDone(c, g1, g2)

\* Lines 240-304.
AfterScan(a, k, g1, g2, e) ==
  IF a.over THEN a
  ELSE IF k = "both" THEN CompareAndSpace(Compare(a, e), g1, g2)
  ELSE IF Breaks(k) THEN Left(Report(a, k))
  ELSE CompareAndSpace(Compare(Report(a, k), e), g1, g2)

Scanned2(a, g1, g2, e) == AfterScan(a, Presence(a), g1, g2, e)

\* One pass through the body of while ( 1 ) at line 230.
TokenIter(g1, g2, e) == Scanned2(ScanTokens(Locals, g1, g2), g1, g2, e)

\* A buffer after a pass that read its cells rd in view g.
Resolved(buf, g, rd) == [i \in Cells |-> IF i \in rd THEN g[i] ELSE buf[i]]

\* The views a pass needs: the buffers as they are when the pass reads no
\* UNINIT cell, every reading of the UNINIT cells otherwise.
ReadsUninit(buf, rd) == \E i \in rd : buf[i] = UNINIT

PassViews(buf, p, rd) == IF ReadsUninit(buf, rd) THEN Views(buf, p) ELSE {buf}

\* The state after a pass with result r in views g1, g2.
Pass(r, g1, g2) ==
  /\ pc' = IF r.over THEN "overrun" ELSE IF r.brk THEN "read" ELSE "token"
  /\ tokennr' = r.tokennr
  /\ diff' = r.diff /\ wsdiff' = r.wsdiff /\ out' = r.out
  /\ pos1' = r.pos1 /\ pos2' = r.pos2
  /\ n1' = r.n1 /\ n2' = r.n2
  /\ str1' = r.str1 /\ str2' = r.str2
  /\ f1' = r.f1 /\ f2' = r.f2
  /\ line1' = Resolved(line1, g1, r.rd1)
  /\ line2' = Resolved(line2, g2, r.rd2)

PassesFrom(r0) ==
  \E g1 \in PassViews(line1, pos1, r0.rd1),
     g2 \in PassViews(line2, pos2, r0.rd2),
     e \in Outcomes(f1, f2, TRUE) :
       Pass(TokenIter(g1, g2, e), g1, g2)

TokenStep ==
  /\ pc = "token"
  /\ PassesFrom(TokenIter(line1, line2, TRUE))
  /\ UNCHANGED <<in1, in2, linenr, inputVars, optVars, acceptVars>>

Next == BothEnded \/ File1Ended \/ File2Ended \/ LinesRead \/ TokenStep \/ Finish

Spec == Init /\ [][Next]_vars

\* ------------------------------------------- should_accept on its own
\* Values of f1 and f2, of --alpha and of --probability (in hundredths).
FloatValues == {Fin(0), Fin(1), Fin(2), NaN, PosInf, NegInf}

Alphas == {1, 5, 10}

Probabilities == {50, 95}

InitAccept ==
  /\ LoopInit
  /\ Tolerances
  /\ f1 \in FloatValues /\ f2 \in FloatValues
  /\ alpha \in Alphas
  /\ probability \in Probabilities

\* A call should_accept(s, c) with 0 <= s <= c cases.
ShouldAcceptCall ==
  /\ calls < MaxCalls
  /\ \E c \in 1..MaxCases : \E s \in 0..c :
       /\ successes' = s
       /\ cases' = c
       /\ result' \in Outcomes(f1, f2, should_accept(s, c))
  /\ calls' = calls + 1
  /\ UNCHANGED <<pc, in1, in2, linenr, diff, wsdiff, lineVars, f1, f2,
                 inputVars, optVars, out>>

\* Lines 254-255: sscanf stores two numbers in f1 and f2.
ScanFloats ==
  /\ \E a \in FloatValues, b \in FloatValues :
       /\ a.cls = "fin" /\ b.cls = "fin"
       /\ f1' = a /\ f2' = b
  /\ UNCHANGED <<pc, in1, in2, linenr, diff, wsdiff, lineVars, inputVars,
                 optVars, out, acceptVars>>

NextAccept == ShouldAcceptCall \/ ScanFloats

SpecAccept == InitAccept /\ [][NextAccept]_vars

\* ===================================================== the properties
\* Records of out.
Recs == {out[i] : i \in 1..Len(out)}

HasKind(K) == \E r \in Recs : r.kind \in K

LengthKinds == {"file1ended", "file2ended"}

ParseKinds == {"parse1", "parse2"}

\* The run has printed "Found %d differences": the report of a failed run.
Rejected == HasKind({"found"})

\* Number of out's first n records that go with diff++.
RECURSIVE CountDiffs(_)
CountDiffs(n) ==
  IF n = 0 THEN 0
  ELSE CountDiffs(n - 1) + (IF out[n].kind \in DiffKinds THEN 1 ELSE 0)

\* The whitespace-separated tokens of a line.
RECURSIVE TokensOf(_, _, _)
TokensOf(l, i, cur) ==
  IF i > Len(l) THEN (IF cur = <<>> THEN <<>> ELSE <<cur>>)
  ELSE IF isspace(l[i])
       THEN (IF cur = <<>> THEN <<>> ELSE <<cur>>) \o TokensOf(l, i + 1, <<>>)
       ELSE TokensOf(l, i + 1, Append(cur, l[i]))

IsNumber(tok) == tok # <<>> /\ \A i \in 1..Len(tok) : isdigit(tok[i])

NumberOf(tok) == DigitsValue(tok, 1, 0)

\* A submission line holding one value X; a reference line holding L R.
IsValueLine(l) ==
  LET ts == TokensOf(l, 1, <<>>) IN Len(ts) = 1 /\ IsNumber(ts[1])

IsIntervalLine(l) ==
  LET ts == TokensOf(l, 1, <<>>) IN
  Len(ts) = 2 /\ IsNumber(ts[1]) /\ IsNumber(ts[2])

\* The line numbers at which a value line met an interval line.
CaseLines ==
  {l \in 1..Len(in1) :
     l <= Len(in2) /\ IsValueLine(in1[l]) /\ IsIntervalLine(in2[l])}

InInterval(l) ==
  LET x == NumberOf(TokensOf(in1[l], 1, <<>>)[1])
      ts == TokensOf(in2[l], 1, <<>>)
  IN NumberOf(ts[1]) <= x /\ x <= NumberOf(ts[2])

\* The first token of line l has been through the comparison.
Compared(l) == l < linenr \/ pc # "token" \/ tokennr >= 1

\* ------------------------------------------------------------------ C1
\* C1: when one stream ends while the other still gives a line, exactly one
\* length-mismatch record is written, for that line number; it is the last
\* difference written; the loop is left (no further line is read: each
\* stream has given as many lines as the loop made passes, the ended one a
\* line less), no record belongs to the surplus line, and the finished run
\* prints the summary of a failed run.
C1_LengthMismatchStops ==
  \A i \in 1..Len(out) :
    out[i].kind \in LengthKinds =>
      /\ pc \in {"finish", "done"}
      /\ out[i].line = linenr
      /\ diff >= 1
      /\ \A j \in 1..Len(out) :
           j # i => /\ out[j].kind \notin LengthKinds
                    /\ (out[j].kind = "found" \/ (j < i /\ out[j].line < linenr))
      /\ IF out[i].kind = "file1ended"
         THEN Len(in1) = linenr - 1 /\ Len(in2) = linenr
         ELSE Len(in1) = linenr /\ Len(in2) = linenr - 1
      /\ (pc = "done" => Rejected)

\* The submission ends a line before the reference, after a line pair that
\* was compared, and the run has finished.
C1_Witness ==
  /\ pc = "done"
  /\ \E r \in Recs : r.kind = "file1ended" /\ r.line = 2
  /\ Len(in1) = 1 /\ Len(in2) = 2

\* ------------------------------------------------------------------ C2
\* C2: a line pair with one number X in the submission and two numbers L R
\* in the reference leaves no difference record for its line.
C2_IntervalLineHasNoRecord ==
  \A l \in CaseLines :
    \A r \in Recs : r.line = l => r.kind \notin DiffKinds

\* ------------------------------------------------------------------ C3
\* C3: the comparison of a value X with its interval L R comes out as a
\* match exactly when L <= X <= R.
C3_OutcomeIsMembership ==
  \A l \in CaseLines :
    Compared(l) =>
      (InInterval(l) <=> ~(\E r \in Recs : r.line = l /\ r.kind = "floatdiffers"))

\* ------------------------------------------------------------------ C6
\* C6: a finished run has evaluated the acceptance test exactly once.
C6_VerdictOnce == pc = "done" => calls = 1

C8_IdenticalStreamsClean ==
  in1 = in2 => diff = 0 /\ wsdiff = 0 /\ out = <<>> /\ pc # "overrun"

\* ------------------------------------------------------------------ C9
\* C9 as stated: after a parse-failure record no further line is read and
\* nothing but the summary is written.
C9_ParseFailureEndsRun ==
  \A i \in 1..Len(out) :
    out[i].kind \in ParseKinds =>
      /\ Len(in1) = out[i].line /\ Len(in2) = out[i].line
      /\ \A j \in 1..Len(out) : i < j => out[j].kind = "found"

\* C9 amended: a parse failure ends the comparison of its line only.  As
\* long as the loop is at that line it has left the token loop and scanned no
\* later token; every later record is the summary or belongs to a later
\* line; the finished run prints the summary with the count of all
\* differences.
C9_ParseFailureEndsLine ==
  \A i \in 1..Len(out) :
    out[i].kind \in ParseKinds =>
      /\ \A j \in 1..Len(out) :
           i < j => (out[j].kind = "found" \/ out[j].line > out[i].line)
      /\ (linenr = out[i].line => pc = "read" /\ tokennr = out[i].token)
      /\ (pc = "done" =>
            /\ out[Len(out)].kind = "found"
            /\ out[Len(out)].token = CountDiffs(Len(out)))

\* A parse failure at line 1 followed by a difference at line 2.
C9_Witness ==
  /\ pc = "done"
  /\ \E r \in Recs : r.kind \in ParseKinds /\ r.line = 1
  /\ \E r \in Recs : r.kind \in DiffKinds /\ r.line = 2

\* ----------------------------------------------------------------- C10
\* C10: in the token loop neither cursor is past the NUL of its line.
C10_CursorInLine ==
  pc = "token" => pos1 <= strlen(line1) /\ pos2 <= strlen(line2)

\* ------------------------------------------------------------------ C4
\* One-sided normal quantile for 1 - a/100, in hundredths.
Quantile(a) == CASE a = 1 -> 233 [] a = 5 -> 164 [] OTHER -> 128

\* z_obs >= -z for k successes in n cases, p0 = p/100: with
\* B = 100k - np + 50 (that is 100n times the numerator of z_obs), B >= 0 or
\* B^2 <= z^2 n p (100 - p).
ZTestAccepts(k, n, a, p) ==
  LET B == 100 * k - n * p + 50 IN
  B >= 0 \/ B * B * 10000 <= Quantile(a) * Quantile(a) * n * p * (100 - p)

\* C4: should_accept(k, n) accepts exactly when z_obs >= -z.
C4_AcceptIsZTest ==
  calls > 0 => (result <=> ZTestAccepts(successes, cases, alpha, probability))

\* ------------------------------------------------------------------ C5
\* C5: with n, alpha and probability fixed, a call with at least as many
\* successes as an accepted call is accepted.
C5_MonotoneInSuccesses ==
  [][(/\ calls > 0 /\ calls' = calls + 1
      /\ cases' = cases /\ successes' >= successes
      /\ result) => result']_vars

====
